---------------------------- MODULE Spec2Model ----------------------------
(***************************************************************************)
(* The user service of src/handlers.rs: six axum handlers over one table   *)
(* of users reached through SeaORM.  Every handler is a sequence of        *)
(* awaited storage statements; requests run concurrently, so the           *)
(* statements of different requests interleave.  Each statement is one     *)
(* action.  A statement may also fail to reach the store (a connection     *)
(* error), which every handler maps to 500.                                *)
(***************************************************************************)
EXTENDS Integers, Sequences, FiniteSets, TLC

(* ------------------------------ bounds --------------------------------- *)
\* handler tasks that may be in flight at once
MaxReq == 2
\* requests served in one behaviour
MaxOps == 3
\* largest wall-clock reading
MaxClock == 1

(* --------------------------- request inputs ---------------------------- *)
Names == {"Ann", "Annie"}
Emails == {"ann@x.com", "bob@x.com"}
\* Option::None of UpdateUserRequest.name / .email
None == "-"
Slots == 1..MaxReq
\* every id the sequence can hand out within the requests of one behaviour
Ids == 1..(MaxOps + 1)
\* the ids requests name: an id of MaxOps or more can exist only when no
\* request is left to name it, and is otherwise one more id never assigned
TargetIds == 1..(MaxOps - 1)

(* ----------------------------- StatusCode ------------------------------ *)
OK == 200
CREATED == 201
NO_CONTENT == 204
NOT_FOUND == 404
CONFLICT == 409
INTERNAL_SERVER_ERROR == 500

VARIABLES
    users,      \* the users table: id -> row, for the ids that exist
    nextId,     \* the autoincrement sequence of users.id
    clock,      \* the wall clock chrono::Utc::now() reads
    req,        \* per handler task: the request, its locals and its response
    ops,        \* requests accepted so far
    budget,     \* requests one behaviour may accept in all
    assigned,   \* history: every id the store has ever assigned
    created201, \* history: create requests answered 201
    deleted204, \* history: id -> delete requests answered 204
    writes      \* history: id -> UPDATE statements that changed the row

vars == <<users, nextId, clock, req, ops, budget, assigned, created201, deleted204, writes>>

(* ------------------------------ entities ------------------------------- *)
\* user::Model
Model(id, name, email, created_at, updated_at) ==
    [id |-> id, name |-> name, email |-> email,
     created_at |-> created_at, updated_at |-> updated_at]

\* the None of Option<user::Model>
NoModel == Model(0, None, None, 0, 0)

\* NaiveDateTime::to_string: the reading rendered as two decimal digits
to_string(t) == <<t \div 10, t % 10>>

\* impl From<user::Model> for UserResponse
UserResponse(m) ==
    [id |-> m.id, name |-> m.name, email |-> m.email,
     created_at |-> to_string(m.created_at),
     updated_at |-> to_string(m.updated_at)]

(* ------------------------------- DbErr --------------------------------- *)
\* the Display text of the errors the handlers can see, word by word; the
\* unique violation is worded as PostgreSQL words it
ErrText(e) ==
    CASE e = "UniqueViolation" ->
            <<"Query", "Error:", "error", "returned", "from", "database:",
              "duplicate", "key", "value", "violates", "unique", "constraint">>
      [] e = "Conn" -> <<"Connection", "Error:", "connection", "refused">>
      [] e = "RecordNotUpdated" ->
            <<"None", "of", "the", "records", "are", "updated">>
      [] OTHER -> <<>>

\* str::contains, on words
Contains(text, pat) ==
    \E i \in 1..(Len(text) - Len(pat) + 1) :
        SubSeq(text, i, i + Len(pat) - 1) = pat

\* create_user with the duplicate test left out of its map_err closure
CreateErrStatusPlain(e) == INTERNAL_SERVER_ERROR

\* the map_err closure of create_user
CreateErrStatus(e) ==
    IF Contains(ErrText(e), <<"duplicate", "key">>)
       \/ Contains(ErrText(e), <<"unique", "constraint">>)
    THEN CONFLICT
    ELSE INTERNAL_SERVER_ERROR

(* ------------------------------ requests ------------------------------- *)
IdleReq ==
    [kind |-> "none", pc |-> "idle", id |-> 0, name |-> None, email |-> None,
     now |-> 0, model |-> NoModel, status |-> 0, err |-> "none",
     body |-> {}, text |-> None, late |-> FALSE, wseq |-> 0]

\* an id for which some delete has already been answered 204
Gone(id) == id \in Ids /\ deleted204[id] > 0

\* a handler task takes a request: axum routes it to its handler (the idle
\* tasks are interchangeable, so the first idle one takes it)
Accept(s, r) ==
    /\ req[s].pc = "idle"
    /\ \A q \in Slots : q < s => req[q].pc # "idle"
    /\ ops < budget
    /\ ops' = ops + 1
    /\ req' = [req EXCEPT ![s] = r]

Request(kind, pc, id, name, email, now) ==
    [IdleReq EXCEPT !.kind = kind, !.pc = pc, !.id = id, !.name = name,
                    !.email = email, !.now = now, !.late = Gone(id)]

\* the handler returns: its Result becomes the response
Finish(s, status, err, body) ==
    req' = [req EXCEPT ![s].pc = "done", ![s].status = status,
                       ![s].err = err, ![s].body = body]

Init ==
    /\ users = [i \in {} |-> NoModel]
    /\ nextId = 1
    /\ clock \in 0..MaxClock
    /\ req = [s \in Slots |-> IdleReq]
    /\ ops = 0
    /\ budget = MaxOps
    /\ assigned = {}
    /\ created201 = 0
    /\ deleted204 = [i \in Ids |-> 0]
    /\ writes = [i \in Ids |-> 0]

(* ---------------------------- health_check ----------------------------- *)
health_check(s) ==
    /\ Accept(s, [IdleReq EXCEPT !.kind = "health", !.pc = "done",
                                 !.status = OK, !.text = "ok"])
    /\ UNCHANGED <<users, nextId, clock, budget, assigned, created201, deleted204, writes>>

(* ----------------------------- create_user ----------------------------- *)
\* create_user reading the clock a second time for updated_at
NewUserTwoReadings(id, name, email, now) == Model(id, name, email, now, clock)

\* the user::ActiveModel of create_user: one clock reading for both stamps
NewUser(id, name, email, now) == Model(id, name, email, now, now)

\* a users table created without the unique index on email
NoUniqueIndex(email, self) == FALSE

\* the unique constraint on users.email: a row other than self holds email
EmailTaken(email, self) ==
    \E i \in DOMAIN users : i # self /\ users[i].email = email

\* the id the store gives the next row: the value of an autoincrement
\* sequence, which never hands a value out twice
AssignId == nextId

\* let now = Utc::now(); the ActiveModel is built; the INSERT is sent
create_user_begin(s, name, email) ==
    /\ Accept(s, Request("create", "insert", 0, name, email, clock))
    /\ UNCHANGED <<users, nextId, clock, budget, assigned, created201, deleted204, writes>>

\* user.insert(&state.db).await, the map_err closure and the Ok(..)
create_user_insert(s) ==
    /\ req[s].pc = "insert"
    /\ IF EmailTaken(req[s].email, 0)
       THEN /\ Finish(s, CreateErrStatus("UniqueViolation"), "UniqueViolation", {})
            /\ UNCHANGED <<users, nextId, assigned, created201>>
       ELSE LET id == AssignId
                row == NewUser(id, req[s].name, req[s].email, req[s].now)
            IN /\ users' = users @@ (id :> row)
               /\ nextId' = id + 1
               /\ assigned' = assigned \cup {id}
               /\ created201' = created201 + 1
               /\ Finish(s, CREATED, "none", {UserResponse(row)})
    /\ UNCHANGED <<clock, ops, budget, deleted204, writes>>

(* ----------------------------- list_users ------------------------------ *)
list_users_begin(s) ==
    /\ Accept(s, Request("list", "find_all", 0, None, None, 0))
    /\ UNCHANGED <<users, nextId, clock, budget, assigned, created201, deleted204, writes>>

\* user::Entity::find().all(&state.db).await and the map to UserResponse
list_users_find(s) ==
    /\ req[s].pc = "find_all"
    /\ Finish(s, OK, "none", {UserResponse(users[i]) : i \in DOMAIN users})
    /\ UNCHANGED <<users, nextId, clock, ops, budget, assigned, created201, deleted204, writes>>

(* ------------------------------ get_user ------------------------------- *)
\* user::Entity::find_by_id(id).one(&state.db)
find_by_id(id) == IF id \in DOMAIN users THEN users[id] ELSE NoModel

get_user_begin(s, id) ==
    /\ Accept(s, Request("get", "find", id, None, None, 0))
    /\ UNCHANGED <<users, nextId, clock, budget, assigned, created201, deleted204, writes>>

get_user_find(s) ==
    /\ req[s].kind = "get" /\ req[s].pc = "find"
    /\ LET found == find_by_id(req[s].id)
       IN IF found = NoModel
          THEN Finish(s, NOT_FOUND, "none", {})
          ELSE Finish(s, OK, "none", {UserResponse(found)})
    /\ UNCHANGED <<users, nextId, clock, ops, budget, assigned, created201, deleted204, writes>>

(* ----------------------------- update_user ----------------------------- *)
\* update_user without its user.updated_at = Set(..) line
ActiveModelNoStamp(m, name, email, now) ==
    [set |-> (IF name # None THEN {"name"} ELSE {})
               \cup (IF email # None THEN {"email"} ELSE {}),
     vals |-> Model(m.id,
                    IF name # None THEN name ELSE m.name,
                    IF email # None THEN email ELSE m.email,
                    m.created_at,
                    m.updated_at)]

\* user.into() and the Set(..) assignments: the columns marked Set, and the
\* values the ActiveModel carries for every column
ActiveModel(m, name, email, now) ==
    [set |-> (IF name # None THEN {"name"} ELSE {})
               \cup (IF email # None THEN {"email"} ELSE {})
               \cup {"updated_at"},
     vals |-> Model(m.id,
                    IF name # None THEN name ELSE m.name,
                    IF email # None THEN email ELSE m.email,
                    m.created_at,
                    now)]

\* an UPDATE that writes every column the ActiveModel carries
UpdatedRowAll(row, am) == am.vals

\* the UPDATE SeaORM builds from an ActiveModel: only the Set columns
UpdatedRow(row, am) ==
    Model(row.id,
          IF "name" \in am.set THEN am.vals.name ELSE row.name,
          IF "email" \in am.set THEN am.vals.email ELSE row.email,
          row.created_at,
          IF "updated_at" \in am.set THEN am.vals.updated_at ELSE row.updated_at)

update_user_begin(s, id, name, email) ==
    /\ Accept(s, Request("update", "find", id, name, email, 0))
    /\ UNCHANGED <<users, nextId, clock, budget, assigned, created201, deleted204, writes>>

\* find_by_id(id).one(..).await ... ok_or(NOT_FOUND), then the clock is read
update_user_find(s) ==
    /\ req[s].kind = "update" /\ req[s].pc = "find"
    /\ LET found == find_by_id(req[s].id)
       IN IF found = NoModel
          THEN Finish(s, NOT_FOUND, "none", {})
          ELSE req' = [req EXCEPT ![s].pc = "update", ![s].model = found,
                                  ![s].now = clock]
    /\ UNCHANGED <<users, nextId, clock, ops, budget, assigned, created201, deleted204, writes>>

\* user.update(&state.db).await: UPDATE .. WHERE id = .. RETURNING *
update_user_update(s) ==
    /\ req[s].pc = "update"
    /\ LET id == req[s].id
           am == ActiveModel(req[s].model, req[s].name, req[s].email, req[s].now)
       IN IF id \notin DOMAIN users
          THEN /\ Finish(s, INTERNAL_SERVER_ERROR, "RecordNotUpdated", {})
               /\ UNCHANGED <<users, writes>>
          ELSE IF "email" \in am.set /\ EmailTaken(am.vals.email, id)
          THEN /\ Finish(s, INTERNAL_SERVER_ERROR, "UniqueViolation", {})
               /\ UNCHANGED <<users, writes>>
          ELSE LET row == UpdatedRow(users[id], am)
               IN /\ users' = [users EXCEPT ![id] = row]
                  /\ writes' = [writes EXCEPT ![id] = @ + 1]
                  /\ req' = [req EXCEPT ![s].pc = "done", ![s].status = OK,
                                        ![s].body = {UserResponse(row)},
                                        ![s].wseq = writes[id] + 1]
    /\ UNCHANGED <<nextId, clock, ops, budget, assigned, created201, deleted204>>

(* ----------------------------- delete_user ----------------------------- *)
\* a delete that never reaches the table
DeleteRowKept(id) == users

\* DELETE FROM users WHERE id = ..: the table without that row, if it is there
DeleteRow(id) == [i \in DOMAIN users \ {id} |-> users[i]]

delete_user_begin(s, id) ==
    /\ Accept(s, Request("delete", "find", id, None, None, 0))
    /\ UNCHANGED <<users, nextId, clock, budget, assigned, created201, deleted204, writes>>

delete_user_find(s) ==
    /\ req[s].kind = "delete" /\ req[s].pc = "find"
    /\ LET found == find_by_id(req[s].id)
       IN IF found = NoModel
          THEN Finish(s, NOT_FOUND, "none", {})
          ELSE req' = [req EXCEPT ![s].pc = "delete", ![s].model = found]
    /\ UNCHANGED <<users, nextId, clock, ops, budget, assigned, created201, deleted204, writes>>

\* user.delete(&state.db).await: Ok(DeleteResult) whatever rows_affected is
delete_user_delete(s) ==
    /\ req[s].pc = "delete"
    /\ users' = DeleteRow(req[s].id)
    /\ deleted204' = [deleted204 EXCEPT ![req[s].id] = @ + 1]
    /\ Finish(s, NO_CONTENT, "none", {})
    /\ UNCHANGED <<nextId, clock, ops, budget, assigned, created201, writes>>

(* --------------------------- the environment --------------------------- *)
\* an awaited statement returns Err(DbErr::Conn): it never reached the store
StorageFailure(s) ==
    /\ req[s].pc \in {"insert", "find_all", "find", "update", "delete"}
    /\ Finish(s, INTERNAL_SERVER_ERROR, "Conn", {})
    /\ UNCHANGED <<users, nextId, clock, ops, budget, assigned, created201, deleted204, writes>>

\* the response is written and the handler task ends
Respond(s) ==
    /\ req[s].pc = "done"
    /\ req' = [req EXCEPT ![s] = IdleReq]
    /\ UNCHANGED <<users, nextId, clock, ops, budget, assigned, created201, deleted204, writes>>

\* the wall clock advances
ClockTick ==
    /\ clock < MaxClock
    /\ clock' = clock + 1
    /\ UNCHANGED <<users, nextId, req, ops, budget, assigned, created201, deleted204, writes>>

\* the wall clock is set back (it is the system's real-time clock)
ClockStepBack ==
    /\ \E t \in 0..(clock - 1) : clock' = t
    /\ UNCHANGED <<users, nextId, req, ops, budget, assigned, created201, deleted204, writes>>

Next ==
    \/ \E s \in Slots : health_check(s)
    \/ \E s \in Slots, n \in Names, e \in Emails : create_user_begin(s, n, e)
    \/ \E s \in Slots : create_user_insert(s)
    \/ \E s \in Slots : list_users_begin(s)
    \/ \E s \in Slots : list_users_find(s)
    \/ \E s \in Slots, i \in TargetIds : get_user_begin(s, i)
    \/ \E s \in Slots : get_user_find(s)
    \/ \E s \in Slots, i \in TargetIds, n \in Names \cup {None}, e \in Emails \cup {None} :
          update_user_begin(s, i, n, e)
    \/ \E s \in Slots : update_user_find(s)
    \/ \E s \in Slots : update_user_update(s)
    \/ \E s \in Slots, i \in TargetIds : delete_user_begin(s, i)
    \/ \E s \in Slots : delete_user_find(s)
    \/ \E s \in Slots : delete_user_delete(s)
    \/ \E s \in Slots : StorageFailure(s)
    \/ \E s \in Slots : Respond(s)
    \/ ClockTick
    \/ ClockStepBack

Spec == Init /\ [][Next]_vars

\* create_user, list_users and delete_user alone, with one request more
InitCount ==
    /\ users = [i \in {} |-> NoModel]
    /\ nextId = 1
    /\ clock = 0
    /\ req = [s \in Slots |-> IdleReq]
    /\ ops = 0
    /\ budget = MaxOps + 1
    /\ assigned = {}
    /\ created201 = 0
    /\ deleted204 = [i \in Ids |-> 0]
    /\ writes = [i \in Ids |-> 0]

NextCount ==
    \/ \E s \in Slots, n \in Names, e \in Emails : create_user_begin(s, n, e)
    \/ \E s \in Slots : create_user_insert(s)
    \/ \E s \in Slots : list_users_begin(s)
    \/ \E s \in Slots : list_users_find(s)
    \/ \E s \in Slots, i \in TargetIds : delete_user_begin(s, i)
    \/ \E s \in Slots : delete_user_find(s)
    \/ \E s \in Slots : delete_user_delete(s)
    \/ \E s \in Slots : StorageFailure(s)
    \/ \E s \in Slots : Respond(s)

SpecCount == InitCount /\ [][NextCount]_vars

(* ------------------------------- claims -------------------------------- *)
Done(s, kind) == req[s].kind = kind /\ req[s].pc = "done"

\* task s answers in this step
Answers(s) == req[s].pc # "done" /\ req'[s].pc = "done"

\* C1: in every reachable state no two existing rows hold the same email,
\* whatever creates, updates and deletes ran and however they interleaved; an
\* update to an email another row holds does not get through.
C1_EmailUnique ==
    \A i, j \in DOMAIN users : i # j => users[i].email # users[j].email

\* an update that asked for another row's email has been turned down
C1_Witness ==
    \E s \in Slots :
        /\ Done(s, "update") /\ req[s].err = "UniqueViolation"
        /\ req[s].status # OK
        /\ Cardinality(DOMAIN users) = 2

\* C2: a create whose email an existing row holds leaves the table as it was
\* (no row added, no row touched) and, when its INSERT is answered by the
\* store, returns 409.
C2_DuplicateCreateConflicts ==
    [][\A s \in Slots :
          (req[s].pc = "insert" /\ EmailTaken(req[s].email, 0) /\ Answers(s))
          => /\ users' = users
             /\ nextId' = nextId
             /\ req'[s].err # "Conn" => req'[s].status = CONFLICT]_vars

C2_Witness ==
    \E s \in Slots :
        /\ Done(s, "create") /\ req[s].status = CONFLICT
        /\ EmailTaken(req[s].email, 0)

\* C3: a create whose email no existing row holds, once its INSERT is answered
\* by the store, returns 201 with one record: its id was never assigned before
\* (the ids of deleted users included) and its created_at equals its
\* updated_at; that record is the row added.
C3_CreateFresh ==
    [][\A s \in Slots :
          (/\ req[s].pc = "insert" /\ ~EmailTaken(req[s].email, 0)
           /\ Answers(s) /\ req'[s].err # "Conn")
          => /\ req'[s].status = CREATED
             /\ \E r \in req'[s].body :
                   /\ req'[s].body = {r}
                   /\ r.id \notin assigned
                   /\ r.id \notin DOMAIN users
                   /\ r.created_at = r.updated_at
                   /\ r.id \in DOMAIN users'
                   /\ UserResponse(users'[r.id]) = r
                   /\ r.name = req[s].name /\ r.email = req[s].email]_vars

\* a user is created after an earlier one was deleted
C3_Witness ==
    \E s \in Slots :
        /\ Done(s, "create") /\ req[s].status = CREATED
        /\ \E r \in req[s].body : r.id = 2
        /\ Gone(1)

\* C4: an update answered 200 changes, in the stored row, the name only if
\* the body has one and the email only if the body has one, sets updated_at
\* to the time the handler read, and leaves the row's id and created_at and
\* every other row as they were.
C4_UpdateFrame ==
    [][\A s \in Slots :
          (req[s].pc = "update" /\ Answers(s) /\ req'[s].status = OK)
          => LET id == req[s].id
             IN /\ id \in DOMAIN users
                /\ DOMAIN users' = DOMAIN users
                /\ users'[id].name =
                      (IF req[s].name # None THEN req[s].name ELSE users[id].name)
                /\ users'[id].email =
                      (IF req[s].email # None THEN req[s].email ELSE users[id].email)
                /\ users'[id].updated_at = req[s].now
                /\ users'[id].id = users[id].id
                /\ users'[id].created_at = users[id].created_at
                /\ \A j \in DOMAIN users : j # id => users'[j] = users[j]]_vars

\* an update with an empty body has moved updated_at and nothing else
C4_Witness ==
    \E s \in Slots :
        /\ Done(s, "update") /\ req[s].status = OK
        /\ req[s].name = None /\ req[s].email = None
        /\ req[s].id \in DOMAIN users
        /\ users[req[s].id].updated_at # users[req[s].id].created_at
        /\ users[req[s].id].name = req[s].model.name
        /\ users[req[s].id].email = req[s].model.email

\* C5: once a delete of an id was answered 204 the row never exists again,
\* and every get, update or delete of that id accepted afterwards is answered
\* 404 (500 when its statement did not reach the store), never 200 or 204.
C5_DeletedStaysDeleted ==
    /\ \A i \in Ids : Gone(i) => i \notin DOMAIN users
    /\ \A s \in Slots :
          (req[s].pc = "done" /\ req[s].late
              /\ req[s].kind \in {"get", "update", "delete"})
          => \/ req[s].status = NOT_FOUND
             \/ req[s].status = INTERNAL_SERVER_ERROR /\ req[s].err = "Conn"

\* a get accepted after the 204 is answered 404 while other users exist
C5_Witness ==
    \E s \in Slots :
        /\ Done(s, "get") /\ req[s].late /\ req[s].status = NOT_FOUND
        /\ Gone(req[s].id)

\* the deletes answered 204, over the ids of S
Sum(f, S) ==
    LET RECURSIVE go(_)
        go(T) == IF T = {} THEN 0
                 ELSE LET x == CHOOSE y \in T : TRUE IN f[x] + go(T \ {x})
    IN go(S)

\* C6: a list answered 200 returns exactly N - M records, N the creates
\* answered 201 and M the deletes answered 204 so far.
C6_ListCount ==
    [][\A s \in Slots :
          (req[s].pc = "find_all" /\ Answers(s) /\ req'[s].status = OK)
          => Cardinality(req'[s].body) = created201 - Sum(deleted204, Ids)]_vars

\* C7: every existing row has updated_at >= created_at, and no step changes
\* the created_at of a row.
C7_TimestampsOrdered ==
    [][/\ \A i \in DOMAIN users' : users'[i].updated_at >= users'[i].created_at
       /\ \A i \in DOMAIN users \cap DOMAIN users' :
             users'[i].created_at = users[i].created_at]_vars

\* C8: an update whose statement finds no row with its id is answered 404; it
\* is answered 500 only when the store failed; it never brings a row back.
C8_UpdateOfMissingRowIs404 ==
    [][\A s \in Slots :
          (req[s].kind = "update" /\ Answers(s))
          => /\ (req[s].id \notin DOMAIN users /\ req'[s].err # "Conn")
                   => req'[s].status = NOT_FOUND
             /\ req'[s].status = INTERNAL_SERVER_ERROR
                   => req'[s].err \in {"Conn", "UniqueViolation"}
             /\ DOMAIN users' \subseteq DOMAIN users]_vars

\* C9: for each id at most one delete is ever answered 204.
C9_OneDeleteSucceeds ==
    \A i \in Ids : deleted204[i] <= 1

\* C10: two updates of one row, one with a name only and one with an email
\* only, both answered 200 and the last two writes of that row (in either
\* order, however their reads and writes interleaved): the row has the new
\* name and the new email.
C10_DisjointUpdatesBothApply ==
    \A s1, s2 \in Slots :
        (/\ Done(s1, "update") /\ Done(s2, "update")
         /\ req[s1].status = OK /\ req[s2].status = OK
         /\ req[s1].id = req[s2].id
         /\ req[s1].name # None /\ req[s1].email = None
         /\ req[s2].name = None /\ req[s2].email # None
         /\ req[s1].id \in DOMAIN users
         /\ {req[s1].wseq, req[s2].wseq}
               = {writes[req[s1].id] - 1, writes[req[s1].id]})
        => /\ users[req[s1].id].name = req[s1].name
           /\ users[req[s1].id].email = req[s2].email

\* the email-only update read the row before the name-only update wrote it,
\* and wrote after it
C10_Witness ==
    \E s1, s2 \in Slots :
        /\ Done(s1, "update") /\ Done(s2, "update")
        /\ req[s1].status = OK /\ req[s2].status = OK
        /\ req[s1].id = req[s2].id
        /\ req[s1].name # None /\ req[s1].email = None
        /\ req[s2].name = None /\ req[s2].email # None
        /\ req[s1].id \in DOMAIN users
        /\ req[s2].wseq = writes[req[s1].id]
        /\ req[s1].wseq = req[s2].wseq - 1
        /\ req[s2].model.name # req[s1].name
        /\ req[s2].model.email # req[s2].email
        /\ users[req[s1].id].name = req[s1].name

=============================================================================
